---- MODULE Spec2Model ----
(***************************************************************************)
(* Model of tonic-rustls' accept loop (src/server/incoming.rs), of its TLS *)
(* acceptor / connector (src/server/service/tls.rs and                     *)
(* src/channel/service/tls.rs) and of its error-recovery middleware        *)
(* (src/server/service/recover_error.rs).                                  *)
(*                                                                         *)
(* Spec     : the accept multiplexer tcp_incoming, its consumer, its       *)
(*            source and the spawned handshake tasks.                      *)
(* TermSpec : Spec with a finite source, a polling consumer and tasks      *)
(*            that finish (weak fairness).                                 *)
(* LiveSpec : secure mode with a source that stays open, a polling         *)
(*            consumer and a fair select.                                  *)
(* TlsSpec  : construction and use of TlsAcceptor and TlsConnector.        *)
(* BindSpec : TcpIncoming::new and the drop of a TcpIncoming.              *)
(* SvcSpec  : calls through RecoverError and reads of MaybeEmptyBody.      *)
(***************************************************************************)
EXTENDS Integers, Sequences, FiniteSets, TLC

(* ---------------------------------------------------------------- bounds *)
MaxConns == 2
MaxErrs == 1
MaxAlpn == 2
MaxListeners == 3
MaxFrames == 2

(* ------------------------------------------------------------- constants *)
ALPN_H2 == "h2"

NoAlpn == "none"
Protocols == {ALPN_H2, "http/1.1"}

Conns == 1..MaxConns

\* io::ErrorKind values an accept error may carry, and an error that is not
\* an io::Error at all (downcast_ref::<io::Error>() gives None)
IoErrorKinds ==
  {"ConnectionAborted", "ConnectionReset", "BrokenPipe", "Interrupted",
   "WouldBlock", "TimedOut", "ConnectionRefused", "PermissionDenied",
   "OutOfMemory", "Other"}
NotIoError == "NotIoError"
Errors == IoErrorKinds \cup {NotIoError}

VARIABLES
  build,      \* "tls" | "notls": which cfg(feature) variant of tcp_incoming
  acceptor,   \* tls: Option<TlsAcceptor>      [some, alpn_protocols]
  connector,  \* Option of a built TlsConnector [some, alpn_protocols, domain, assume_http2]
  given,      \* the configs the callers handed to the two constructors
  neg,        \* the negotiation most recently run by accept / connect
  pc,         \* position of the try_stream generator
  st,         \* per raw connection: where it is (JoinSet membership and fate)
  out,        \* items the output stream has yielded, in order
  srcLog,     \* items taken from the source stream so far, in order
  sel,        \* SelectOutput most recently matched by the loop
  listeners,  \* the TcpIncoming values alive, each with the address it holds
  lastNew,    \* the most recent call of TcpIncoming::new and its result
  call,       \* what the inner service returned to the most recent call
  resp,       \* what ResponseFuture::poll returned for it
  frame       \* what the most recent poll_frame on resp's body returned

vars == <<build, acceptor, connector, given, neg, pc, st, out, srcLog, sel,
          listeners, lastNew, call, resp, frame>>
muxVars == <<build, pc, st, out, srcLog, sel>>
tlsVars == <<connector, given, neg>>
bindVars == <<listeners, lastNew>>
svcVars == <<call, resp, frame>>

(* --------------------------------------------------------------- helpers *)
Range(s) == {s[i] : i \in DOMAIN s}

SeqsUpTo(S, n) == UNION {[1..k -> S] : k \in 0..n}

NoAcceptor  == [some |-> FALSE, alpn_protocols |-> <<>>]
NoConnector == [some |-> FALSE, alpn_protocols |-> <<>>, domain |-> "",
                assume_http2 |-> FALSE]
NoNeg == [role |-> "none", override |-> FALSE, ok |-> FALSE, alpn |-> NoAlpn,
          result |-> "none"]

(* ------------------------------------------------ server/service/tls.rs *)
\* (variant) the token is pushed only when the caller's list lacks it
TlsAcceptorNew_IfAbsent(config) ==
  [some |-> TRUE,
   alpn_protocols |-> IF ALPN_H2 \in Range(config) THEN config
                      ELSE Append(config, ALPN_H2)]

\* TlsAcceptor::new: push ALPN_H2 onto the caller's list, wrap in Arc
TlsAcceptorNew(config) ==
  [some |-> TRUE, alpn_protocols |-> Append(config, ALPN_H2)]

\* What the rustls handshake (a black box) can report for a configuration:
\* failure, or success with either no ALPN protocol or one of those offered.
Handshakes(alpn_protocols) ==
  {[ok |-> FALSE, alpn |-> NoAlpn]} \cup
  {[ok |-> TRUE, alpn |-> a] : a \in Range(alpn_protocols) \cup {NoAlpn}}

\* TlsAcceptor::accept: the handshake result, errors converted, nothing else
TlsAccept(acc, hs) ==
  IF hs.ok THEN "io" ELSE "hs_err"

(* ----------------------------------------------- channel/service/tls.rs *)
\* ServerName::try_from(domain): the identities the parser accepts
ValidDomain(domain) == domain \in {"example.com", "127.0.0.1"}
Domains == {"example.com", "127.0.0.1", "bad domain"}

\* (variant) the domain is stored unparsed; parsing is left to connect
TlsConnectorNew_Unchecked(config, domain, assume_http2) ==
  [some |-> TRUE, alpn_protocols |-> Append(config, ALPN_H2),
   domain |-> domain, assume_http2 |-> assume_http2]

\* TlsConnector::new: push ALPN_H2, then parse the domain (error => no connector)
TlsConnectorNew(config, domain, assume_http2) ==
  IF ValidDomain(domain)
  THEN [some |-> TRUE, alpn_protocols |-> Append(config, ALPN_H2),
        domain |-> domain, assume_http2 |-> assume_http2]
  ELSE NoConnector

\* (variant) the ALPN check without the assume_http2 escape hatch
TlsConnect_NoOverride(con, hs) ==
  IF ~hs.ok THEN "hs_err"
  ELSE IF ~(hs.alpn = ALPN_H2) THEN "alpn_err"
  ELSE "io"

\* TlsConnector::connect: handshake, then the ALPN check of lines 44-51
TlsConnect(con, hs) ==
  IF ~hs.ok THEN "hs_err"
  ELSE IF ~(hs.alpn = ALPN_H2 \/ con.assume_http2) THEN "alpn_err"
  ELSE "io"

(* --------------------------------------------------- server/incoming.rs *)
\* (variant) the match arm list without TimedOut
handle_tcp_accept_error_NoTimedOut(e) ==
  IF e \in IoErrorKinds
     /\ e \in {"ConnectionAborted", "ConnectionReset", "BrokenPipe",
               "Interrupted", "WouldBlock"}
  THEN "Continue"
  ELSE "Break"

\* handle_tcp_accept_error: ControlFlow::Continue or ControlFlow::Break
handle_tcp_accept_error(e) ==
  IF e \in IoErrorKinds
     /\ e \in {"ConnectionAborted", "ConnectionReset", "BrokenPipe",
               "Interrupted", "WouldBlock", "TimedOut"}
  THEN "Continue"
  ELSE "Break"

ConnItem(c) == [kind |-> "conn", conn |-> c, err |-> ""]
ErrItem(e)  == [kind |-> "err", conn |-> 0, err |-> e]

\* ServerIo::new_io / ServerIo::new_tls_io, and the error item of Err(e)?
new_io(c)     == [kind |-> "io", conn |-> c, tls |-> FALSE, err |-> ""]
new_tls_io(c) == [kind |-> "io", conn |-> c, tls |-> TRUE, err |-> ""]
ErrOut(e)     == [kind |-> "err", conn |-> 0, tls |-> FALSE, err |-> e]

NConns == Cardinality({i \in DOMAIN srcLog : srcLog[i].kind = "conn"})
NErrs  == Cardinality({i \in DOMAIN srcLog : srcLog[i].kind = "err"})

\* the JoinSet: tasks spawned and not yet joined
InPool == {"running", "ok", "tlserr", "joinerr"}
Pool == {c \in Conns : st[c] \in InPool}

\* (variant) tasks detached from the generator: dropping it aborts nothing
AbortAll_Detached(s) == s

\* Dropping the JoinSet aborts every task it still holds
AbortAll(s) ==
  [c \in Conns |->
     CASE s[c] = "running" -> "aborted"
       [] s[c] = "ok" -> "lost_ok"
       [] s[c] \in {"tlserr", "joinerr"} -> "lost_err"
       [] OTHER -> s[c]]

SelOut(tag, c, e) == [tag |-> tag, conn |-> c, err |-> e]

\* incoming.try_next(): the next raw connection, an accept error, or the end
TryNext ==
  (IF NConns < MaxConns THEN {SelOut("Incoming", NConns + 1, "")} ELSE {})
  \cup (IF NErrs < MaxErrs THEN {SelOut("TcpErr", 0, e) : e \in Errors} ELSE {})
  \cup {SelOut("Done", 0, "")}

\* tasks.join_next(): a task that has finished, with its result; None at
\* once when the JoinSet is empty, which expect("JoinSet should never end")
\* turns into a panic
JoinNext ==
  IF Pool = {}
  THEN {SelOut("JoinSetEnded", 0, "")}
  ELSE {SelOut(IF st[c] = "ok" THEN "Io" ELSE "TlsErr", c, "")
          : c \in {d \in Conns : st[d] \in {"ok", "tlserr", "joinerr"}}}

\* (variant) both branches are always raced, without the is_empty test
select_NoEmptyCheck == TryNext \cup JoinNext

\* (variant) the source is awaited alone; completions are never raced
select_SourceOnly == TryNext

\* select: only the source when the JoinSet is empty, else a race of both
select ==
  IF Pool = {} THEN TryNext ELSE TryNext \cup JoinNext

(* ---------------------------------- server/incoming.rs: TcpIncoming::new *)
\* Socket addresses handed to TcpIncoming::new, as the port on 127.0.0.1:
\* two fixed ports, and port 0 (the system picks a free port itself).
Handles == 1..MaxListeners
Addrs == {0, 1322, 1323}
Ephemeral == {49152 + h : h \in Handles}

NoListener == [live |-> FALSE, addr |-> 0, local |-> 0]
NoNew == [seq |-> 0, addr |-> 0, ok |-> FALSE, handle |-> 0]

\* local addresses held by the listening sockets of the live TcpIncomings
InUse(ls) == {ls[h].local : h \in {k \in Handles : ls[k].live}}

\* (variant) the socket is given SO_REUSEPORT before it is bound
StdBind_ReusePort(addr, inUse) ==
  IF addr = 0 THEN Ephemeral \ inUse ELSE {addr}

\* StdTcpListener::bind(addr): the local addresses the call may end up
\* holding; the empty set stands for Err (address in use, no port left)
StdBind(addr, inUse) ==
  IF addr = 0 THEN Ephemeral \ inUse
  ELSE IF addr \in inUse THEN {}
  ELSE {addr}

(* ---------------------------------------- server/service/recover_error.rs *)
\* The inner service's response body (ResBody): the data frames it still
\* holds, whether it reports is_end_stream once they are gone (the trait's
\* default never does), and whether its size_hint is exact (the default is
\* "at least 0").
FrameData == {"x", "y"}
Bodies ==
  [frames : SeqsUpTo(FrameData, MaxFrames), eos : BOOLEAN, sized : BOOLEAN]
NoBody == [frames |-> <<>>, eos |-> FALSE, sized |-> FALSE]

StatusCodes == {"NotFound", "Unavailable", "Internal"}
OtherErrors == {"io", "custom"}
Heads == {"h1", "h2"}

\* What the inner future can resolve to: Ok(response), an error that holds a
\* Status, or an error that holds none
InnerResults ==
  {[kind |-> "ok", head |-> h, body |-> b, code |-> ""]
     : h \in Heads, b \in Bodies}
  \cup {[kind |-> "status", head |-> "", body |-> NoBody, code |-> c]
           : c \in StatusCodes}
  \cup {[kind |-> "other", head |-> "", body |-> NoBody, code |-> e]
           : e \in OtherErrors}

NoCall == [kind |-> "none", head |-> "", body |-> NoBody, code |-> ""]
NotPolled == "not_polled"
EndOfBody == "None"

\* the wrapped body's own poll_frame, is_end_stream and size_hint
InnerPollFrame(b) ==
  IF b.frames = <<>>
  THEN [frame |-> EndOfBody, body |-> b]
  ELSE [frame |-> Head(b.frames), body |-> [b EXCEPT !.frames = Tail(@)]]
InnerIsEndStream(b) == b.frames = <<>> /\ b.eos
InnerSizeHint(b) ==
  IF b.sized THEN [lower |-> Len(b.frames), upper |-> Len(b.frames)]
  ELSE [lower |-> 0, upper |-> -1]
SizeHintExact(n) == [lower |-> n, upper |-> n]

\* MaybeEmptyBody::empty: inner is None
empty == [some |-> FALSE, inner |-> NoBody]

\* (variant) a real body that holds no frame is stored as None
full_CollapseEmpty(inner) ==
  IF inner.frames = <<>> THEN empty ELSE [some |-> TRUE, inner |-> inner]

\* MaybeEmptyBody::full: inner is Some(inner)
full(inner) == [some |-> TRUE, inner |-> inner]

\* Body for MaybeEmptyBody: delegate to Some(b), fixed answers for None
poll_frame(m) ==
  IF m.some
  THEN LET p == InnerPollFrame(m.inner) IN
       [frame |-> p.frame, body |-> [m EXCEPT !.inner = p.body]]
  ELSE [frame |-> EndOfBody, body |-> m]
is_end_stream(m) == IF m.some THEN InnerIsEndStream(m.inner) ELSE TRUE
size_hint(m) == IF m.some THEN InnerSizeHint(m.inner) ELSE SizeHintExact(0)

NoResp == [kind |-> "none", head |-> "", grpc_status |-> "none",
           body |-> empty, err |-> ""]

\* Status::try_from_error: Ok(status) when the error holds a Status
TryFromError(r) ==
  IF r.kind = "status" THEN [ok |-> TRUE, code |-> r.code]
  ELSE [ok |-> FALSE, code |-> ""]

\* (variant) Status::from_error: an error that holds no Status becomes the
\* status Unknown, so nothing is ever propagated
poll_FromError(r) ==
  IF r.kind = "ok"
  THEN [kind |-> "ok", head |-> r.head, grpc_status |-> "none",
        body |-> full(r.body), err |-> ""]
  ELSE [kind |-> "ok", head |-> "", body |-> empty, err |-> "",
        grpc_status |-> IF TryFromError(r).ok THEN TryFromError(r).code
                        ELSE "Unknown"]

\* ResponseFuture::poll once the inner future is ready
poll(r) ==
  IF r.kind = "ok"
  THEN [kind |-> "ok", head |-> r.head, grpc_status |-> "none",
        body |-> full(r.body), err |-> ""]
  ELSE IF TryFromError(r).ok
  THEN [kind |-> "ok", head |-> "", grpc_status |-> TryFromError(r).code,
        body |-> empty, err |-> ""]
  ELSE [kind |-> "err", head |-> "", grpc_status |-> "none",
        body |-> empty, err |-> r.code]

(* ------------------------------------------------------------------ Init *)
Init ==
  /\ build \in {"tls", "notls"}
  /\ acceptor \in {NoAcceptor} \cup
        (IF build = "tls"
         THEN {TlsAcceptorNew(<<>>)}
         ELSE {})
  /\ connector = NoConnector
  /\ given = [acceptor |-> <<>>, connector |-> <<>>]
  /\ neg = NoNeg
  /\ pc = "select"
  /\ st = [c \in Conns |-> "none"]
  /\ out = <<>>
  /\ srcLog = <<>>
  /\ sel = SelOut("Start", 0, "")
  /\ listeners = [h \in Handles |-> NoListener]
  /\ lastNew = NoNew
  /\ call = NoCall
  /\ resp = NoResp
  /\ frame = NotPolled

(* ------------------------------------------- tcp_incoming, feature "tls" *)
\* (variant) the Option is ignored: an upgrade is spawned in plain mode too
ArmIncoming_AlwaysSpawn ==
  /\ build = "tls" /\ pc = "select"
  /\ \E o \in select :
       /\ o.tag = "Incoming"
       /\ sel' = o
       /\ srcLog' = Append(srcLog, ConnItem(o.conn))
       /\ st' = [st EXCEPT ![o.conn] = "running"]
       /\ out' = out
       /\ pc' = "select"
  /\ UNCHANGED <<build, acceptor, tlsVars, bindVars, svcVars>>

\* SelectOutput::Incoming(stream): spawn the upgrade, or yield the plain io
ArmIncoming ==
  /\ build = "tls" /\ pc = "select"
  /\ \E o \in select :
       /\ o.tag = "Incoming"
       /\ sel' = o
       /\ srcLog' = Append(srcLog, ConnItem(o.conn))
       /\ IF acceptor.some
          THEN /\ st' = [st EXCEPT ![o.conn] = "running"]
               /\ out' = out
               /\ pc' = "select"
          ELSE /\ st' = [st EXCEPT ![o.conn] = "plain"]
               /\ out' = Append(out, new_io(o.conn))
               /\ pc' = "yield"
  /\ UNCHANGED <<build, acceptor, tlsVars, bindVars, svcVars>>

\* (variant) the finished task is read but stays in the JoinSet
ArmIo_NoRemove ==
  /\ build = "tls" /\ pc = "select"
  /\ \E o \in select :
       /\ o.tag = "Io"
       /\ sel' = o
       /\ st' = st
       /\ out' = Append(out, new_tls_io(o.conn))
       /\ pc' = "yield"
  /\ UNCHANGED <<build, acceptor, tlsVars, bindVars, svcVars, srcLog>>

\* SelectOutput::Io(io): yield the upgraded io
ArmIo ==
  /\ build = "tls" /\ pc = "select"
  /\ \E o \in select :
       /\ o.tag = "Io"
       /\ sel' = o
       /\ st' = [st EXCEPT ![o.conn] = "yielded"]
       /\ out' = Append(out, new_tls_io(o.conn))
       /\ pc' = "yield"
  /\ UNCHANGED <<build, acceptor, tlsVars, bindVars, svcVars, srcLog>>

\* (variant) a fatal error is yielded like an item and the loop goes on
ArmTcpErr_KeepsGoing ==
  /\ build = "tls" /\ pc = "select"
  /\ \E o \in select :
       /\ o.tag = "TcpErr"
       /\ sel' = o
       /\ srcLog' = Append(srcLog, ErrItem(o.err))
       /\ IF handle_tcp_accept_error(o.err) = "Continue"
          THEN /\ out' = out
               /\ pc' = "select"
          ELSE /\ out' = Append(out, ErrOut(o.err))
               /\ pc' = "yield"
  /\ UNCHANGED <<build, acceptor, tlsVars, bindVars, svcVars, st>>

\* SelectOutput::TcpErr(e): triage, then continue or Err(e)?
ArmTcpErr ==
  /\ build = "tls" /\ pc = "select"
  /\ \E o \in select :
       /\ o.tag = "TcpErr"
       /\ sel' = o
       /\ srcLog' = Append(srcLog, ErrItem(o.err))
       /\ IF handle_tcp_accept_error(o.err) = "Continue"
          THEN /\ out' = out
               /\ pc' = "select"
          ELSE /\ out' = Append(out, ErrOut(o.err))
               /\ pc' = "break_err"
  /\ UNCHANGED <<build, acceptor, tlsVars, bindVars, svcVars, st>>

\* (variant) a handshake failure is propagated with ? like a source error
ArmTlsErr_Fatal ==
  /\ build = "tls" /\ pc = "select"
  /\ \E o \in select :
       /\ o.tag = "TlsErr"
       /\ sel' = o
       /\ st' = [st EXCEPT ![o.conn] = "reported"]
       /\ out' = Append(out, ErrOut("TlsErr"))
       /\ pc' = "break_err"
  /\ UNCHANGED <<build, acceptor, tlsVars, bindVars, svcVars, srcLog>>

\* SelectOutput::TlsErr(e): log and continue
ArmTlsErr ==
  /\ build = "tls" /\ pc = "select"
  /\ \E o \in select :
       /\ o.tag = "TlsErr"
       /\ sel' = o
       /\ st' = [st EXCEPT ![o.conn] = "reported"]
       /\ pc' = "select"
  /\ UNCHANGED <<build, acceptor, tlsVars, bindVars, svcVars, out, srcLog>>

\* (variant) the end of the source is surfaced to the consumer as an error
ArmDone_ReportsClosed ==
  /\ build = "tls" /\ pc = "select"
  /\ \E o \in select :
       /\ o.tag = "Done"
       /\ sel' = o
       /\ st' = st
       /\ out' = Append(out, ErrOut("Other"))
       /\ pc' = "break_err"
  /\ UNCHANGED <<build, acceptor, tlsVars, bindVars, svcVars, srcLog>>

\* SelectOutput::Done: break; the generator returns and drops the JoinSet
ArmDone ==
  /\ build = "tls" /\ pc = "select"
  /\ \E o \in select :
       /\ o.tag = "Done"
       /\ sel' = o
       /\ st' = AbortAll(st)
       /\ pc' = "done"
  /\ UNCHANGED <<build, acceptor, tlsVars, bindVars, svcVars, out, srcLog>>

(* --------------------------------------- tcp_incoming, without "tls" *)
\* Ok(_) => item.map(ServerIo::new_io)? is yielded
NoTlsOk ==
  /\ build = "notls" /\ pc = "select"
  /\ \E o \in TryNext :
       /\ o.tag = "Incoming"
       /\ sel' = o
       /\ srcLog' = Append(srcLog, ConnItem(o.conn))
       /\ st' = [st EXCEPT ![o.conn] = "plain"]
       /\ out' = Append(out, new_io(o.conn))
       /\ pc' = "yield"
  /\ UNCHANGED <<build, acceptor, tlsVars, bindVars, svcVars>>

\* Err(e) => triage, then continue or Err(e)?
NoTlsErr ==
  /\ build = "notls" /\ pc = "select"
  /\ \E o \in TryNext :
       /\ o.tag = "TcpErr"
       /\ sel' = o
       /\ srcLog' = Append(srcLog, ErrItem(o.err))
       /\ IF handle_tcp_accept_error(o.err) = "Continue"
          THEN /\ out' = out
               /\ pc' = "select"
          ELSE /\ out' = Append(out, ErrOut(o.err))
               /\ pc' = "break_err"
  /\ UNCHANGED <<build, acceptor, tlsVars, bindVars, svcVars, st>>

\* incoming.next() gives None: the while loop ends
NoTlsEnd ==
  /\ build = "notls" /\ pc = "select"
  /\ \E o \in TryNext :
       /\ o.tag = "Done"
       /\ sel' = o
       /\ pc' = "done"
  /\ UNCHANGED <<build, acceptor, tlsVars, bindVars, svcVars, st, out, srcLog>>

(* ------------------------------------------------ consumer of the stream *)
\* The consumer polls again after an item: the generator resumes after its
\* yield; after Err(e)? it returns, which drops the JoinSet.
Resume ==
  /\ pc \in {"yield", "break_err"}
  /\ IF pc = "yield"
     THEN pc' = "select" /\ st' = st
     ELSE pc' = "done" /\ st' = AbortAll(st)
  /\ UNCHANGED <<build, acceptor, tlsVars, bindVars, svcVars, out, srcLog, sel>>

\* The consumer drops the stream: the generator and its JoinSet are dropped
Drop ==
  /\ pc \in {"select", "yield", "break_err"}
  /\ pc' = "dropped"
  /\ st' = AbortAll(st)
  /\ UNCHANGED <<build, acceptor, tlsVars, bindVars, svcVars, out, srcLog, sel>>

(* ---------------------------------------------------- the spawned tasks *)
\* async move { let io = tls.accept(stream).await?; Ok(ServerIo::new_tls_io(io)) }
TaskFinish ==
  /\ \E c \in Conns, hs \in Handshakes(acceptor.alpn_protocols) :
       /\ st[c] = "running"
       /\ st' = [st EXCEPT ![c] =
                   IF TlsAccept(acceptor, hs) = "io" THEN "ok" ELSE "tlserr"]
  /\ UNCHANGED <<build, acceptor, tlsVars, bindVars, svcVars, pc, out, srcLog, sel>>

\* the task panics: join_next reports Err(JoinError)
TaskPanic ==
  /\ \E c \in Conns :
       /\ st[c] = "running"
       /\ st' = [st EXCEPT ![c] = "joinerr"]
  /\ UNCHANGED <<build, acceptor, tlsVars, bindVars, svcVars, pc, out, srcLog, sel>>

Next ==
  \/ ArmIncoming
  \/ ArmIo
  \/ ArmTcpErr
  \/ ArmTlsErr
  \/ ArmDone
  \/ NoTlsOk
  \/ NoTlsErr
  \/ NoTlsEnd
  \/ Resume
  \/ Drop
  \/ TaskFinish
  \/ TaskPanic

Spec == Init /\ [][Next]_vars

(* --------------------- TermSpec: a finite source and handshakes that end *)
\* The source is finite (once the loop waits on it, it ends), the consumer
\* polls again after every item, and every handshake task finishes.
TermSpec ==
  /\ Init /\ [][Next]_vars
  /\ WF_vars(ArmDone) /\ WF_vars(NoTlsEnd)
  /\ WF_vars(Resume)
  /\ WF_vars(TaskFinish \/ TaskPanic)

(* ------------------- LiveSpec: a polling consumer and a source that stays *)
\* Secure mode, a consumer that polls again after every item and never
\* drops the stream, and a source that neither ends nor fails. tokio::select!
\* (no `biased;`) starts at a random branch on every poll, so a branch that
\* is ready again and again is taken: strong fairness on each arm.
LiveInit ==
  /\ build = "tls"
  /\ acceptor \in {TlsAcceptorNew(config)
                     : config \in SeqsUpTo(Protocols, MaxAlpn)}
  /\ connector = NoConnector
  /\ given = [acceptor |-> <<>>, connector |-> <<>>]
  /\ neg = NoNeg
  /\ pc = "select"
  /\ st = [c \in Conns |-> "none"]
  /\ out = <<>>
  /\ srcLog = <<>>
  /\ sel = SelOut("Start", 0, "")
  /\ listeners = [h \in Handles |-> NoListener]
  /\ lastNew = NoNew
  /\ call = NoCall
  /\ resp = NoResp
  /\ frame = NotPolled

LiveNext ==
  \/ ArmIncoming
  \/ ArmIo
  \/ ArmTlsErr
  \/ Resume
  \/ TaskFinish
  \/ TaskPanic

LiveSpec ==
  /\ LiveInit /\ [][LiveNext]_vars
  /\ WF_vars(Resume)
  /\ SF_vars(ArmIncoming) /\ SF_vars(ArmIo) /\ SF_vars(ArmTlsErr)

(* ------------------------------------ TlsSpec: the acceptor and connector *)
TlsInit ==
  /\ build = "tls"
  /\ acceptor = NoAcceptor
  /\ connector = NoConnector
  /\ given = [acceptor |-> <<>>, connector |-> <<>>]
  /\ neg = NoNeg
  /\ pc = "select"
  /\ st = [c \in Conns |-> "none"]
  /\ out = <<>>
  /\ srcLog = <<>>
  /\ sel = SelOut("Start", 0, "")
  /\ listeners = [h \in Handles |-> NoListener]
  /\ lastNew = NoNew
  /\ call = NoCall
  /\ resp = NoResp
  /\ frame = NotPolled

AcceptorNew ==
  /\ \E config \in SeqsUpTo(Protocols, MaxAlpn) :
       /\ acceptor' = TlsAcceptorNew(config)
       /\ given' = [given EXCEPT !.acceptor = config]
  /\ UNCHANGED <<connector, neg, muxVars, bindVars, svcVars>>

ConnectorNew ==
  /\ \E config \in SeqsUpTo(Protocols, MaxAlpn), domain \in Domains,
        assume_http2 \in BOOLEAN :
       /\ TlsConnectorNew(config, domain, assume_http2).some
       /\ connector' = TlsConnectorNew(config, domain, assume_http2)
       /\ given' = [given EXCEPT !.connector = config]
  /\ UNCHANGED <<acceptor, neg, muxVars, bindVars, svcVars>>

\* TlsConnector::new returns Err: no connector is produced by this call
ConnectorNewFails ==
  /\ \E config \in SeqsUpTo(Protocols, MaxAlpn), domain \in Domains,
        assume_http2 \in BOOLEAN :
       /\ ~TlsConnectorNew(config, domain, assume_http2).some
  /\ neg' = [NoNeg EXCEPT !.role = "config_error"]
  /\ UNCHANGED <<acceptor, connector, given, muxVars, bindVars, svcVars>>

Accept ==
  /\ acceptor.some
  /\ \E hs \in Handshakes(acceptor.alpn_protocols) :
       neg' = [role |-> "responder", override |-> FALSE, ok |-> hs.ok,
               alpn |-> hs.alpn, result |-> TlsAccept(acceptor, hs)]
  /\ UNCHANGED <<acceptor, connector, given, muxVars, bindVars, svcVars>>

Connect ==
  /\ connector.some
  /\ \E hs \in Handshakes(connector.alpn_protocols) :
       neg' = [role |-> "initiator", override |-> connector.assume_http2,
               ok |-> hs.ok, alpn |-> hs.alpn,
               result |-> TlsConnect(connector, hs)]
  /\ UNCHANGED <<acceptor, connector, given, muxVars, bindVars, svcVars>>

TlsNext ==
  \/ AcceptorNew
  \/ ConnectorNew
  \/ ConnectorNewFails
  \/ Accept
  \/ Connect

TlsSpec == TlsInit /\ [][TlsNext]_vars

(* ------------------------------------------ BindSpec: TcpIncoming values *)
\* nothing has been constructed yet
BindInit == TlsInit

\* TcpIncoming::new(addr, ..): bind, `?` on failure, else a new TcpIncoming
TcpIncomingNew ==
  /\ \E addr \in Addrs :
       LET bound == StdBind(addr, InUse(listeners))
           free  == {h \in Handles : ~listeners[h].live}
       IN IF bound = {}
          THEN /\ lastNew' = [seq |-> 1 - lastNew.seq, addr |-> addr,
                              ok |-> FALSE, handle |-> 0]
               /\ listeners' = listeners
          ELSE /\ free # {}
               /\ \E l \in bound :
                    LET h == CHOOSE k \in free : \A j \in free : k <= j IN
                    /\ listeners' = [listeners EXCEPT ![h] =
                          [live |-> TRUE, addr |-> addr, local |-> l]]
                    /\ lastNew' = [seq |-> 1 - lastNew.seq, addr |-> addr,
                                   ok |-> TRUE, handle |-> h]
  /\ UNCHANGED <<acceptor, tlsVars, muxVars, svcVars>>

\* a TcpIncoming goes out of scope: its TcpListenerStream closes the socket
TcpIncomingDrop ==
  /\ \E h \in Handles :
       /\ listeners[h].live
       /\ listeners' = [listeners EXCEPT ![h] = NoListener]
  /\ UNCHANGED <<acceptor, tlsVars, muxVars, svcVars, lastNew>>

BindNext ==
  \/ TcpIncomingNew
  \/ TcpIncomingDrop

BindSpec == BindInit /\ [][BindNext]_vars

(* --------------------------------------- SvcSpec: calls through RecoverError *)
SvcInit == TlsInit

\* RecoverError::call and the poll that resolves its ResponseFuture
SvcCall ==
  /\ \E r \in InnerResults :
       /\ call' = r
       /\ resp' = poll(r)
  /\ frame' = NotPolled
  /\ UNCHANGED <<acceptor, tlsVars, muxVars, bindVars>>

\* the server reads the next frame of the response body
SvcPollFrame ==
  /\ resp.kind = "ok"
  /\ frame # EndOfBody
  /\ frame' = poll_frame(resp.body).frame
  /\ resp' = [resp EXCEPT !.body = poll_frame(resp.body).body]
  /\ UNCHANGED <<acceptor, tlsVars, muxVars, bindVars, call>>

SvcNext ==
  \/ SvcCall
  \/ SvcPollFrame

SvcSpec == SvcInit /\ [][SvcNext]_vars

(***************************************************************************)
(* Properties                                                              *)
(***************************************************************************)
TransientKinds ==
  {"ConnectionAborted", "ConnectionReset", "BrokenPipe", "Interrupted",
   "WouldBlock", "TimedOut"}

SecureMode == build = "tls" /\ acceptor.some
PlainMode == build = "notls" \/ ~acceptor.some

Unobserved == {"aborted", "lost_ok", "lost_err"}

\* C1: in secure mode, when the loop ends because the source is exhausted,
\* every task that was in flight at that moment has had its outcome observed
\* (joined: yielded or reported); none was dropped with the JoinSet.
C1_DrainOnShutdown ==
  (SecureMode /\ pc = "done" /\ sel.tag = "Done")
    => \A c \in Conns : st[c] \notin Unobserved

\* C2: in secure mode, as long as the consumer has not dropped the stream, a
\* handshake that never completes (still running, or aborted while running)
\* never costs another connection its successful handshake: no other
\* connection's completed upgrade is discarded unyielded.
C2_Isolation ==
  (SecureMode /\ pc # "dropped")
    => \A s \in Conns, c \in Conns :
         (s # c /\ st[s] \in {"running", "aborted"}) => st[c] # "lost_ok"

\* C3: a completed handshake without the override flag whose agreed protocol
\* is not "h2" (or is absent) ends in the protocol-policy error, for the
\* initiator and for the responder.
C3_ProtocolInvariant ==
  (neg.role \in {"initiator", "responder"} /\ ~neg.override /\ neg.ok
     /\ neg.alpn # ALPN_H2)
    => neg.result = "alpn_err"

\* C4: with assume_http2 set, a handshake that completes with no negotiated
\* protocol makes connect return a usable io.
C4_OverrideEscapeHatch ==
  (neg.role = "initiator" /\ neg.override /\ neg.ok /\ neg.alpn = NoAlpn)
    => neg.result = "io"

C4_Witness ==
  /\ neg.role = "initiator" /\ neg.override /\ neg.ok /\ neg.alpn = NoAlpn
  /\ connector.assume_http2
  /\ neg.result = "io"

\* C5: a source error is skipped (nothing yielded, pool untouched, loop back
\* at select) exactly when it is an io error of one of the six transient
\* kinds; every other error, a non-io error included, is fatal: it is
\* yielded and the loop leaves select.
C5_ErrorTriage ==
  [][ (srcLog' # srcLog /\ srcLog'[Len(srcLog')].kind = "err")
        => LET e == srcLog'[Len(srcLog')].err IN
           /\ e \in Errors
           /\ (e \in TransientKinds /\ e # NotIoError)
                => (out' = out /\ st' = st /\ pc' = "select")
           /\ ~(e \in TransientKinds /\ e # NotIoError)
                => (out' = Append(out, ErrOut(e)) /\ st' = st /\ pc' # "select")
    ]_vars

C5_Witness ==
  /\ Len(srcLog) >= 2
  /\ srcLog[1].kind = "err" /\ srcLog[1].err = "TimedOut"
  /\ srcLog[2].kind = "conn"
  /\ SecureMode /\ st[1] = "yielded"

FatalTaken ==
  {i \in DOMAIN srcLog :
     srcLog[i].kind = "err" /\ srcLog[i].err \notin TransientKinds}
ErrorsYielded == {i \in DOMAIN out : out[i].kind = "err"}

\* C6: an error is yielded only for a fatal source error, once, as the last
\* item; it is also the last thing taken from the source, and the generator
\* never returns to select.
C6_FatalOnceAndLast ==
  /\ (FatalTaken = {}) <=> (ErrorsYielded = {})
  /\ FatalTaken # {} =>
       /\ FatalTaken = {Len(srcLog)}
       /\ ErrorsYielded = {Len(out)}
       /\ out[Len(out)].err = srcLog[Len(srcLog)].err
       /\ pc \in {"break_err", "done", "dropped"}

C6_Witness ==
  /\ FatalTaken # {}
  /\ pc = "done"
  /\ Len(out) >= 2
  /\ out[1].kind = "io"

Failed == {"tlserr", "joinerr"}

\* C7: when the loop joins a failed upgrade (handshake error or JoinError) it
\* yields nothing, takes nothing from the source and is back at select; and a
\* connection whose upgrade failed never appears in the output.
C7_HandshakeFailureIsLocal ==
  [][ /\ \A c \in Conns :
           (st[c] \in Failed /\ st'[c] = "reported")
             => (out' = out /\ srcLog' = srcLog /\ pc' = "select")
      /\ \A c \in Conns :
           st'[c] \in Failed \cup {"reported", "lost_err"}
             => \A i \in DOMAIN out' : out'[i].conn # c
    ]_vars

C7_Witness ==
  /\ st[1] = "reported"
  /\ st[2] = "yielded"
  /\ pc = "select"
  /\ ErrorsYielded = {}

\* C8: once the output stream has ended or has been dropped, no handshake
\* task is left in the pool: every one that was there is cancelled.
C8_NoTaskOutlivesStream ==
  pc \in {"done", "dropped"} => Pool = {}

C8_Witness ==
  /\ pc = "dropped"
  /\ \E c \in Conns : st[c] = "aborted"
  /\ \E c \in Conns : st[c] = "yielded"

RECURSIVE PlainExpected(_)
PlainExpected(log) ==
  IF log = <<>> THEN <<>>
  ELSE LET h == Head(log) IN
       IF h.kind = "conn"
       THEN <<[kind |-> "io", conn |-> h.conn, tls |-> FALSE, err |-> ""]>>
              \o PlainExpected(Tail(log))
       ELSE IF h.err \in TransientKinds
       THEN PlainExpected(Tail(log))
       ELSE <<[kind |-> "err", conn |-> 0, tls |-> FALSE, err |-> h.err]>>

\* C9: in plain mode the output is the source's sequence, in order, each
\* connection wrapped once as a plain io, transient errors removed, cut at
\* the first fatal error; no task is ever spawned.
C9_PlainModeOrder ==
  PlainMode =>
    /\ out = PlainExpected(srcLog)
    /\ \A c \in Conns : st[c] \in {"none", "plain"}

C9_Witness ==
  /\ build = "tls" /\ ~acceptor.some
  /\ Len(srcLog) = 3 /\ srcLog[2].kind = "err"
  /\ Len(out) = 2 /\ out[1].conn = 1 /\ out[2].conn = 2

\* C10: the stored offer list is the caller's list with "h2" appended once at
\* the end, for the acceptor and for the connector, in every state, so neither
\* accept nor connect changes it.
C10_AlpnAppended ==
  /\ acceptor.some =>
       /\ acceptor.alpn_protocols = given.acceptor \o <<"h2">>
       /\ "h2" \in Range(acceptor.alpn_protocols)
  /\ connector.some =>
       /\ connector.alpn_protocols = given.connector \o <<"h2">>
       /\ "h2" \in Range(connector.alpn_protocols)

C10_Witness ==
  /\ acceptor.some /\ connector.some
  /\ given.acceptor = <<"h2", "http/1.1">>
  /\ given.connector = <<>>
  /\ neg.role = "responder" /\ neg.ok

\* C11: every connector that exists was built from a well-formed domain, so
\* connect only ever runs with one; and a call of TlsConnector::new that
\* fails leaves no handshake behind it: nothing was negotiated, no stream was
\* touched, and no connector came out of that call.
C11_ConfigErrorBeforeIo ==
  /\ connector.some => connector.domain \in {"example.com", "127.0.0.1"}
  /\ neg.role = "initiator" =>
       (connector.some /\ connector.domain # "bad domain")
  /\ neg.role = "config_error" =>
       (~neg.ok /\ neg.alpn = NoAlpn /\ neg.result = "none")

C11_Witness ==
  /\ neg.role = "config_error"
  /\ ~connector.some
  /\ acceptor.some
\* live TcpIncomings that were created by TcpIncoming::new on address a
HeldBy(a) == {h \in Handles : listeners[h].live /\ listeners[h].addr = a}

NoSharedAddress ==
  \A h \in Handles, k \in Handles :
    (h # k /\ listeners[h].live /\ listeners[k].live)
      => listeners[h].local # listeners[k].local

\* C12: no two live TcpIncomings hold the same address, and every call of
\* TcpIncoming::new on an address fails exactly when a live TcpIncoming
\* created on that address exists (so it succeeds again after the drop).
C12_ExclusiveBinding ==
  /\ []NoSharedAddress
  /\ [][ lastNew'.seq # lastNew.seq
           => (lastNew'.ok <=> HeldBy(lastNew'.addr) = {}) ]_vars

\* C12 (amended): the same, for calls on an address with a fixed port; a
\* call on port 0 is given a free port and succeeds beside a live one.
C12_ExclusiveBindingFixedPort ==
  /\ []NoSharedAddress
  /\ [][ (lastNew'.seq # lastNew.seq /\ lastNew'.addr # 0)
           => (lastNew'.ok <=> HeldBy(lastNew'.addr) = {}) ]_vars

C12_Witness ==
  /\ lastNew.addr = 1322 /\ ~lastNew.ok
  /\ HeldBy(1322) # {}
  /\ HeldBy(1323) # {}
\* C13: right after a call through RecoverError resolves, its result is one
\* of three: the inner response passed through (same head, no status added)
\* with its body wrapped as a real body; or, for an error holding a Status, a
\* successful response carrying that status as metadata with a body marked
\* empty; or, for any other error, that error itself. Nothing else.
C13_RecoverOutcomes ==
  (call.kind # "none" /\ frame = NotPolled) =>
    /\ call.kind \in {"ok", "status", "other"}
    /\ call.kind = "ok" =>
         /\ resp.kind = "ok" /\ resp.head = call.head
         /\ resp.grpc_status = "none"
         /\ resp.body.some /\ resp.body.inner = call.body
    /\ call.kind = "status" =>
         /\ resp.kind = "ok" /\ resp.grpc_status = call.code
         /\ ~resp.body.some
    /\ call.kind = "other" =>
         /\ resp.kind = "err" /\ resp.err = call.code

C13_Witness ==
  /\ call.kind = "other" /\ resp.kind = "err"
  /\ frame = NotPolled

\* C14: a body built as empty reports exact size 0, is at end of stream and
\* produces no frame; a body built as full answers each of the three as the
\* wrapped body does, also when that body holds nothing; the marker tells
\* the two apart, and the response of a successful inner call is always the
\* full form, that of a recovered error always the empty form, before and
\* after frames are read.
C14_EmptyBodyDistinction ==
  resp.kind = "ok" =>
    LET m == resp.body IN
    /\ ~m.some =>
         /\ size_hint(m) = [lower |-> 0, upper |-> 0]
         /\ is_end_stream(m)
         /\ poll_frame(m).frame = "None"
         /\ \A b \in Bodies : m # full(b)
    /\ m.some =>
         /\ size_hint(m) = InnerSizeHint(m.inner)
         /\ is_end_stream(m) = InnerIsEndStream(m.inner)
         /\ poll_frame(m).frame = InnerPollFrame(m.inner).frame
         /\ m # empty
    /\ call.kind = "ok" <=> m.some
    /\ call.kind = "status" <=> ~m.some

C14_Witness ==
  /\ call.kind = "ok" /\ call.body.frames = <<>> /\ call.body.sized
  /\ resp.kind = "ok" /\ resp.body.some
  /\ size_hint(resp.body) = [lower |-> 0, upper |-> 0]
  /\ frame = "None"
\* C15: a completed handshake of the initiator gives a usable io exactly when
\* the agreed protocol is "h2", or none was agreed and the override flag is
\* set; with the flag set, an agreed "http/1.1" still ends in the
\* protocol error.
C15_OverrideOnlyExcusesMissing ==
  (neg.role = "initiator" /\ neg.ok) =>
    /\ neg.result = "io"
         <=> (neg.alpn = "h2" \/ (neg.alpn = NoAlpn /\ neg.override))
    /\ neg.result # "io" => neg.result = "alpn_err"
\* C16: in secure mode, once a fatal source error has been taken, nothing
\* more is accepted from the source, and when the sequence has ended every
\* upgrade that was in flight at the error has run to completion and been
\* joined (yielded or reported): none was aborted or had its result dropped.
C16_FatalErrorDrains ==
  (SecureMode /\ FatalTaken # {}) =>
    /\ FatalTaken = {Len(srcLog)}
    /\ pc = "done" => \A c \in Conns : st[c] \notin Unobserved
C18_CleanTermination ==
  /\ []((pc = "done" /\ sel.tag = "Done") => ErrorsYielded = {})
  /\ [][ /\ (pc = "select" /\ sel'.tag = "Done") => (out' = out /\ pc' = "done")
         /\ pc = "done" => (out' = out /\ pc' = "done") ]_vars
  /\ <>(pc \in {"done", "dropped"})

C18_Witness ==
  /\ SecureMode
  /\ pc = "done" /\ sel.tag = "Done"
  /\ st[1] = "yielded" /\ st[2] = "reported"
  /\ Len(out) = 1
Envelopes == {i \in DOMAIN out : out[i].kind = "io"}
Removed == {"yielded", "reported", "aborted", "lost_ok", "lost_err"}

\* C19: in secure mode every connection taken from the source has been handed
\* to a handshake task and no other has; a task is spawned once and, once
\* removed from the pool (joined with success, joined with failure, or
\* dropped with the pool), stays removed with that one outcome; every
\* envelope yielded is a secured one for a connection taken from the source
\* whose task was joined with success, no connection is yielded twice, and
\* there are never more envelopes than accepted connections.
C19_OneConnOneTaskOneOutcome ==
  /\ [](SecureMode =>
         /\ \A c \in Conns :
              IF c <= NConns /\ ConnItem(c) \in Range(srcLog)
              THEN st[c] \in InPool \cup Removed
              ELSE st[c] = "none"
         /\ \A i \in Envelopes :
              /\ out[i].tls
              /\ ConnItem(out[i].conn) \in Range(srcLog)
              /\ st[out[i].conn] = "yielded"
         /\ \A i \in Envelopes, j \in Envelopes :
              i # j => out[i].conn # out[j].conn
         /\ Cardinality(Envelopes) <= NConns)
  /\ [][ SecureMode =>
           \A c \in Conns :
             /\ st[c] \in Removed => st'[c] = st[c]
             /\ (st'[c] = "running" /\ st[c] # "running") => st[c] = "none"
             /\ (st'[c] = "yielded" /\ st[c] # "yielded") => st[c] = "ok"
             /\ (st'[c] = "reported" /\ st[c] # "reported")
                  => st[c] \in {"tlserr", "joinerr"} ]_vars

C19_Witness ==
  /\ SecureMode
  /\ st[1] = "aborted" /\ st[2] = "yielded"
  /\ Len(out) = 1 /\ out[1].conn = 2
\* C20: whenever the loop is in select, join_next is raced only with a
\* non-empty pool, so it never reports the end of the JoinSet and the expect
\* never fails; and while the loop waits there, a step that is not the
\* loop's own (a task finishing) removes nothing from the pool.
C20_JoinSetNeverEnds ==
  /\ []((build = "tls" /\ pc = "select")
          => \A o \in select : o.tag # "JoinSetEnded")
  /\ [](sel.tag # "JoinSetEnded")
  /\ [][ (pc = "select" /\ pc' = "select" /\ sel' = sel /\ srcLog' = srcLog)
           => Pool' = Pool ]_vars

C20_Witness ==
  /\ SecureMode /\ pc = "select"
  /\ sel.tag = "Io" /\ sel.conn = 1
  /\ st[1] = "yielded" /\ st[2] = "running"

TypeOK ==
  /\ build \in {"tls", "notls"}
  /\ pc \in {"select", "yield", "break_err", "done", "dropped"}
  /\ \A c \in Conns : st[c] \in
       {"none", "plain", "running", "ok", "tlserr", "joinerr", "yielded",
        "reported", "aborted", "lost_ok", "lost_err"}
  /\ Len(out) <= MaxConns + 1
  /\ Len(srcLog) <= MaxConns + MaxErrs

====
